---- MODULE Spec2Model ----
(***************************************************************************)
(* Model of the metrics collector (toolkit/metrics_collector.py): the      *)
(* LossCollector buffer/flush engine and the MetricsManager registry; and  *)
(* of the dynamic config store (toolkit/dynamic_config.py) with the        *)
(* operator tool that edits its file (scripts/dynamic_config_cli.py).      *)
(*                                                                         *)
(* Text is modelled as a sequence of one-character strings, so that the    *)
(* formatting of an event id (an f-string) and the cleaning of a loss key  *)
(* (str.replace) are computed character by character.                      *)
(***************************************************************************)
EXTENDS Integers, Sequences, FiniteSets, TLC

\* ------------------------------------------------------------------ bounds
\* largest training step a call reports
MaxStep == 2
\* log_step_metrics calls per behaviour of SpecSeq (the clock stops there)
MaxCalls == 2
\* reports made through the references get_collector returned, in SpecReg
MaxRegCalls == 1
\* log_step_metrics calls per behaviour of SpecBuf
MaxBufCalls == 3
\* calls (reports, flushes, cleanups) per behaviour of SpecThr
MaxThrCalls == 2

\* ------------------------------------------------------- program constants
\* self.buffer_size = 10
buffer_size == 10
\* len(value) < 100
MaxInfoLen == 100
\* hash(value) % 1000000
HashModulus == 1000000

\* ---------------------------------------------------------- Python values
\* A value is a tag t and a payload v. "float" is a finite float, "nan",
\* "inf" and "ninf" the three non-finite floats, "str" a string of v
\* characters, "obj" any other object (a tensor, a list).
Float(n) == [t |-> "float", v |-> n]
NaN == [t |-> "nan", v |-> 0]
Inf == [t |-> "inf", v |-> 0]
NegInf == [t |-> "ninf", v |-> 0]
PyInt(n) == [t |-> "int", v |-> n]
PyBool(n) == [t |-> "bool", v |-> n]
None == [t |-> "none", v |-> 0]
Str(n) == [t |-> "str", v |-> n]
Obj == [t |-> "obj", v |-> 0]

\* isinstance(value, (int, float)): bool is a subclass of int
IsIntOrFloat(value) == value.t \in {"int", "bool", "float", "nan", "inf", "ninf"}

\* isinstance(value, float)
IsFloat(value) == value.t \in {"float", "nan", "inf", "ninf"}

\* value != value, true of NaN alone
NotEqualSelf(value) == value.t = "nan"

IsNumberNoNaNTest(value) == IsIntOrFloat(value)

\* isinstance(value, (int, float)) and not (isinstance(value, float) and (value != value))
IsNumber(value) ==
    IsIntOrFloat(value) /\ ~(IsFloat(value) /\ NotEqualSelf(value))

\* float(value)
PyFloat(value) == IF value.t \in {"int", "bool"} THEN Float(value.v) ELSE value

\* isinstance(value, str) and len(value) < 100
IsShortStr(value) == value.t = "str" /\ value.v < MaxInfoLen

\* hash(value) % 1000000: the hash of a str is fixed within one process
HashValue(value) == PyInt((value.v * 31 + 7) % HashModulus)

\* ------------------------------------------------------------------- text
Digit(d) ==
    CASE d = 0 -> "0" [] d = 1 -> "1" [] d = 2 -> "2" [] d = 3 -> "3"
      [] d = 4 -> "4" [] d = 5 -> "5" [] d = 6 -> "6" [] d = 7 -> "7"
      [] d = 8 -> "8" [] d = 9 -> "9"

RECURSIVE IntToStr(_)
\* str(step) of a non-negative int, as the f-string formats it
IntToStr(n) == IF n < 10 THEN <<Digit(n)>> ELSE IntToStr(n \div 10) \o <<Digit(n % 10)>>

\* s.replace(old, new) for one-character old and new
Replace(s, old, new) == [i \in 1..Len(s) |-> IF s[i] = old THEN new ELSE s[i]]

\* key.replace('/', '_').replace(' ', '_').replace('-', '_')
SafeKey(key) == Replace(Replace(Replace(key, "/", "_"), " ", "_"), "-", "_")

\* f"{self.job_id}_{step}_loss_{safe_key}"
LossId(job_id, step, key) ==
    job_id \o <<"_">> \o IntToStr(step) \o <<"_", "l", "o", "s", "s", "_">> \o SafeKey(key)

\* f"{self.job_id}_{step}_lr"
LrId(job_id, step) == job_id \o <<"_">> \o IntToStr(step) \o <<"_", "l", "r">>

\* f"{self.job_id}_{step}_system_{key}"
SystemId(job_id, step, key) ==
    job_id \o <<"_">> \o IntToStr(step) \o <<"_", "s", "y", "s", "t", "e", "m", "_">> \o key

\* f"{self.job_id}_{step}_info_{key}"
InfoId(job_id, step, key) ==
    job_id \o <<"_">> \o IntToStr(step) \o <<"_", "i", "n", "f", "o", "_">> \o key

\* ----------------------------------------------------------------- events
\* the dict appended to self.buffer
Event(id, job_id, step, timestamp, metric_type, metric_name, value) ==
    [id |-> id, job_id |-> job_id, step |-> step, timestamp |-> timestamp,
     metric_type |-> metric_type, metric_name |-> metric_name, value |-> value]

RECURSIVE LossEvents(_, _, _, _)
\* for key, value in loss_dict.items(): the loss events, in the dict's order
LossEvents(job_id, step, timestamp, loss_dict) ==
    IF loss_dict = <<>> THEN <<>>
    ELSE LET key == Head(loss_dict)[1]
             value == Head(loss_dict)[2]
             rest == LossEvents(job_id, step, timestamp, Tail(loss_dict))
         IN  IF IsNumber(value)
             THEN <<Event(LossId(job_id, step, key), job_id, step, timestamp,
                          "loss", key, PyFloat(value))>> \o rest
             ELSE rest

\* the learning-rate event, if learning_rate is a number
LrEvents(job_id, step, timestamp, learning_rate) ==
    IF IsNumber(learning_rate)
    THEN <<Event(LrId(job_id, step), job_id, step, timestamp,
                 "learning_rate", <<"l", "r">>, PyFloat(learning_rate))>>
    ELSE <<>>

RECURSIVE ExtraEvents(_, _, _, _)
\* for key, value in kwargs.items(): system events for numbers, info events
\* for short strings, nothing for None and for anything else
ExtraEvents(job_id, step, timestamp, kwargs) ==
    IF kwargs = <<>> THEN <<>>
    ELSE LET key == Head(kwargs)[1]
             value == Head(kwargs)[2]
             rest == ExtraEvents(job_id, step, timestamp, Tail(kwargs))
         IN  IF value = None THEN rest
             ELSE IF IsNumber(value)
             THEN <<Event(SystemId(job_id, step, key), job_id, step, timestamp,
                          "system", key, PyFloat(value))>> \o rest
             ELSE IF IsShortStr(value)
             THEN <<Event(InfoId(job_id, step, key), job_id, step, timestamp,
                          "info", key, HashValue(value))>> \o rest
             ELSE rest

\* every event one log_step_metrics call appends, in the order it appends them
CallEvents(job_id, step, timestamp, loss_dict, learning_rate, kwargs) ==
    LossEvents(job_id, step, timestamp, loss_dict)
        \o LrEvents(job_id, step, timestamp, learning_rate)
        \o ExtraEvents(job_id, step, timestamp, kwargs)

\* ------------------------------------------------------------------ store
\* INSERT OR REPLACE of one row into the table keyed by id
Upsert(table, item) == {r \in table : r.id # item.id} \cup {item}

RECURSIVE ExecuteMany(_, _)
\* cursor.executemany(INSERT OR REPLACE ...) over the buffer, in order
ExecuteMany(table, items) ==
    IF items = <<>> THEN table
    ELSE ExecuteMany(Upsert(table, Head(items)), Tail(items))

\* ------------------------------------------------------- config documents
\* what dict.get finds for a key the document does not have
Absent == [t |-> "absent", v |-> 0]

\* isinstance(value, int): bool is a subclass of int
IsInt(value) == value.t \in {"int", "bool"}

\* 'sample_every': 100
DefaultSampleEvery == 100

ConfigKeys == {"sample_every", "save_every", "log_every"}

\* What yaml.safe_load makes of the file's text: a mapping ("map") with the
\* values of its keys, nothing ("empty": an empty file, or only comments), a
\* list ("list") or a scalar ("scalar") when the text is YAML of that shape;
\* "garbage" is text that yaml.safe_load raises on.
Doc(kind, sample_every, save_every, log_every, last_updated) ==
    [kind |-> kind, sample_every |-> sample_every, save_every |-> save_every,
     log_every |-> log_every, last_updated |-> last_updated]

MapDoc(sample_every, save_every, log_every, last_updated) ==
    Doc("map", sample_every, save_every, log_every, last_updated)

\* a document that is not a mapping
OtherDoc(kind) == Doc(kind, Absent, Absent, Absent, Absent)

\* {}
EmptyMap == MapDoc(Absent, Absent, Absent, Absent)

\* default_config of ensure_config_file, written at time
DefaultConfig(time) == MapDoc(PyInt(DefaultSampleEvery), None, None, Float(time))

\* the file: exists is os.path.exists, readable whether open(..., 'r')
\* succeeds, doc what the text parses to, mtime is os.path.getmtime
File(exists, readable, doc, mtime) ==
    [exists |-> exists, readable |-> readable, doc |-> doc, mtime |-> mtime]

\* no file, and none before
NoFile == File(FALSE, FALSE, EmptyMap, 1)

\* config[key]
Field(config, key) ==
    CASE key = "sample_every" -> config.sample_every
      [] key = "save_every" -> config.save_every
      [] key = "log_every" -> config.log_every

\* config[key] = value
SetField(config, key, value) ==
    CASE key = "sample_every" -> [config EXCEPT !.sample_every = value]
      [] key = "save_every" -> [config EXCEPT !.save_every = value]
      [] key = "log_every" -> [config EXCEPT !.log_every = value]

\* DynamicConfig.save_config: open(..., 'w') and yaml.dump; an exception is
\* caught and the file stays as it was
SaveConfig(file, config, time, outcome) ==
    IF outcome = "ok"
    THEN File(TRUE, IF file.exists THEN file.readable ELSE TRUE, config, time)
    ELSE file

\* DynamicConfig.ensure_config_file
EnsureConfigFile(file, time, outcome) ==
    IF ~file.exists THEN SaveConfig(file, DefaultConfig(time), time, outcome) ELSE file

\* yaml.safe_load(f) or {}: a document that is falsy (nothing, an empty
\* mapping) gives {}; a list or a scalar is returned as it is
SafeLoadOrEmpty(doc) == IF doc.kind = "empty" THEN EmptyMap ELSE doc

\* DynamicConfig.load_config: [config, file, opened]; file is the file
\* afterwards (it is created when missing), opened whether the file's text
\* was asked for; any exception gives {}
LoadConfig(file, time, outcome) ==
    LET ensured == EnsureConfigFile(file, time, outcome)
    IN  IF ~ensured.exists \/ ~ensured.readable \/ ensured.doc.kind = "garbage"
        THEN [config |-> EmptyMap, file |-> ensured, opened |-> TRUE]
        ELSE [config |-> SafeLoadOrEmpty(ensured.doc), file |-> ensured, opened |-> TRUE]

\* check_and_update without "self.last_modified = current_modified"
CheckAndUpdateNoRecord(file, last, cache) ==
    IF ~file.exists
    THEN [config |-> EmptyMap, last_modified |-> last, config_cache |-> cache,
          opened |-> FALSE]
    ELSE IF file.mtime <= last
    THEN [config |-> cache, last_modified |-> last, config_cache |-> cache,
          opened |-> FALSE]
    ELSE LET new_config == LoadConfig(file, file.mtime, "ok")
         IN  [config |-> new_config.config, last_modified |-> last,
              config_cache |-> new_config.config, opened |-> new_config.opened]

\* check_and_update returning self.config_cache before it is replaced
CheckAndUpdateReturnsOld(file, last, cache) ==
    IF ~file.exists
    THEN [config |-> EmptyMap, last_modified |-> last, config_cache |-> cache,
          opened |-> FALSE]
    ELSE IF file.mtime <= last
    THEN [config |-> cache, last_modified |-> last, config_cache |-> cache,
          opened |-> FALSE]
    ELSE LET new_config == LoadConfig(file, file.mtime, "ok")
         IN  [config |-> cache, last_modified |-> file.mtime,
              config_cache |-> new_config.config, opened |-> new_config.opened]

\* check_and_update with < written for <=
CheckAndUpdateStrict(file, last, cache) ==
    IF ~file.exists
    THEN [config |-> EmptyMap, last_modified |-> last, config_cache |-> cache,
          opened |-> FALSE]
    ELSE IF file.mtime < last
    THEN [config |-> cache, last_modified |-> last, config_cache |-> cache,
          opened |-> FALSE]
    ELSE LET new_config == LoadConfig(file, file.mtime, "ok")
         IN  [config |-> new_config.config, last_modified |-> file.mtime,
              config_cache |-> new_config.config, opened |-> new_config.opened]

\* DynamicConfig.check_and_update: [config, last_modified, config_cache,
\* opened]: the document returned, the two fields afterwards, and whether the
\* file's text was asked for. The file exists when load_config is reached, so
\* load_config creates nothing here.
CheckAndUpdate(file, last, cache) ==
    IF ~file.exists
    THEN [config |-> EmptyMap, last_modified |-> last, config_cache |-> cache,
          opened |-> FALSE]
    ELSE IF file.mtime <= last
    THEN [config |-> cache, last_modified |-> last, config_cache |-> cache,
          opened |-> FALSE]
    ELSE LET new_config == LoadConfig(file, file.mtime, "ok")
         IN  [config |-> new_config.config, last_modified |-> file.mtime,
              config_cache |-> new_config.config, opened |-> new_config.opened]

\* what a call gave its caller: a value, or an exception
Returned(value) == [raised |-> FALSE, value |-> value]
Raised == [raised |-> TRUE, value |-> None]

\* config.get(key, default): an AttributeError when config is not a mapping
DictGet(config, key, default) ==
    IF config.kind # "map" THEN Raised
    ELSE IF Field(config, key) = Absent THEN Returned(default)
    ELSE Returned(Field(config, key))

\* the body of get_sample_every after check_and_update
SampleEveryOf(config, default) ==
    LET got == DictGet(config, "sample_every", default)
    IN  IF got.raised THEN Raised
        ELSE IF IsInt(got.value) /\ got.value.v > 0 THEN Returned(got.value)
        ELSE Returned(default)

\* the body of get_save_every and of get_log_every after check_and_update
IntervalOf(config, key, default) ==
    LET got == DictGet(config, key, default)
    IN  IF got.raised THEN Raised
        ELSE IF got.value = None THEN Returned(default)
        ELSE IF IsInt(got.value) /\ got.value.v > 0 THEN Returned(got.value)
        ELSE Returned(default)

\* the body of get_<key> after check_and_update
AnswerOf(config, key, default) ==
    IF key = "sample_every" THEN SampleEveryOf(config, default)
    ELSE IntervalOf(config, key, default)

\* no operation on the config store yet
NoCfgCall ==
    [op |-> "none", key |-> "none", arg |-> None, result |-> Returned(None),
     opened |-> FALSE, wrote |-> FALSE]

\* ------------------------------------------------------------------ state
Threads == {"t1", "t2"}
NoThread == "none"

\* the collector objects a behaviour can construct
MaxInst == 4
Insts == 1..MaxInst

JobJ == <<"j">>
JobK == <<"k">>
JobIds == {JobJ, JobK}
DbPaths == {"db1", "db2"}

\* what _get_default_db_path() returns
DefaultDbPath == "db1"

\* the entry of a job_id that is not in the registry
NoCollector == 0

\* how a batched storage write can end: connect, executemany and commit all
\* went through, or one of them raised
Outcomes == {"ok", "error"}

VARIABLES
    heap,        \* the LossCollector objects constructed so far: job_id, db_path
    buffer,      \* buffer[c]: self.buffer of collector c
    lock,        \* lock[c]: the thread holding self.lock of collector c
    store,       \* store[p]: the rows of table TrainingMetrics in database p
    collectors,  \* MetricsManager._collectors: job_id -> collector
    now,         \* the clock datetime.now() reads: it ticks when a report is
                 \* made and, where threads interleave, when any call is made
    frame,       \* frame[t]: the call thread t is executing and its locals
    last_call,   \* what the most recent completed call did: its name, the
                 \* storage writes it attempted and how the write ended, and
                 \* the arguments, timestamp and appended events of the most
                 \* recent log_step_metrics call
    accepted,    \* history: for every (job_id, step, metric_type, metric_name)
                 \* some call appended an event for, the value of the latest
    config_file,   \* the file at self.config_file: whether it exists and can
                   \* be opened, the document in it, its modification time
    last_modified, \* DynamicConfig.last_modified
    config_cache,  \* DynamicConfig.config_cache
    clock,         \* the time of the filesystem, in ticks of its timestamps
    cfg_call       \* what the most recent operation on the config store or on
                   \* its file was, and for a call what it returned

\* the state of the metrics collector and of the registry
met == <<heap, buffer, lock, store, collectors, now, frame, last_call, accepted>>

\* the state of the config store and of its file
cfg == <<config_file, last_modified, config_cache, clock, cfg_call>>

vars == <<met, cfg>>

\* DynamicConfig.__init__ in a directory with no config file: the file is
\* created with the defaults, nothing is cached and nothing observed yet
NewConfig ==
    /\ config_file = EnsureConfigFile(NoFile, 1, "ok")
    /\ last_modified = 0
    /\ config_cache = EmptyMap
    /\ clock = 1
    /\ cfg_call = NoCfgCall

NoArgs == [step |-> 0, loss_dict |-> <<>>, learning_rate |-> None, kwargs |-> <<>>]

NoCall ==
    [op |-> "none", args |-> NoArgs, timestamp |-> 0,
     appended |-> <<>>, writes |-> 0, outcome |-> "none"]

\* a thread that is in no call: pc is its place in the call, c the collector
\* the call is on, todo the events its report has still to append, batch the
\* rows its flush read from the buffer, call what the call did so far;
\* job_id, db_path, new and ret are the arguments and locals of get_collector
Idle ==
    [pc |-> "idle", c |-> 0, todo |-> <<>>, batch |-> <<>>, call |-> NoCall,
     job_id |-> <<>>, db_path |-> "none", new |-> 0, ret |-> 0]

\* LossCollector.__init__: self.db_path = db_path or self._get_default_db_path()
NewCollector(job_id, db_path) ==
    [job_id |-> job_id, db_path |-> IF db_path = "none" THEN DefaultDbPath ELSE db_path]

\* one collector, LossCollector("j", "db1"), freshly constructed; the table
\* exists and is empty
Init ==
    /\ heap = <<NewCollector(JobJ, "db1")>>
    /\ buffer = [c \in Insts |-> <<>>]
    /\ lock = [c \in Insts |-> NoThread]
    /\ store = [p \in DbPaths |-> {}]
    /\ collectors = [j \in JobIds |-> NoCollector]
    /\ now = 0
    /\ frame = [t \in Threads |-> Idle]
    /\ last_call = NoCall
    /\ accepted = {}
    /\ NewConfig

\* ------------------------------------------- the engine, one call at a time
\* flush() with buffer.clear() moved out of the try block
FlushResultClearAlways(table, buf, outcome) ==
    IF buf = <<>>
    THEN [buffer |-> buf, table |-> table, writes |-> 0, outcome |-> "none"]
    ELSE IF outcome = "ok"
    THEN [buffer |-> <<>>, table |-> ExecuteMany(table, buf), writes |-> 1, outcome |-> "ok"]
    ELSE [buffer |-> <<>>, table |-> table, writes |-> 1, outcome |-> "error"]

\* flush() without conn.commit(): the batch is rolled back when conn closes
FlushResultNoCommit(table, buf, outcome) ==
    IF buf = <<>>
    THEN [buffer |-> buf, table |-> table, writes |-> 0, outcome |-> "none"]
    ELSE IF outcome = "ok"
    THEN [buffer |-> <<>>, table |-> table, writes |-> 1, outcome |-> "ok"]
    ELSE [buffer |-> buf, table |-> table, writes |-> 1, outcome |-> "error"]

\* What flush() does to a collector whose buffer holds buf when the storage
\* write ends with outcome: [buffer, table, writes, outcome].
FlushResult(table, buf, outcome) ==
    IF buf = <<>>
    THEN [buffer |-> buf, table |-> table, writes |-> 0, outcome |-> "none"]
    ELSE IF outcome = "ok"
    THEN [buffer |-> <<>>, table |-> ExecuteMany(table, buf), writes |-> 1, outcome |-> "ok"]
    ELSE [buffer |-> buf, table |-> table, writes |-> 1, outcome |-> "error"]

NoFlush(table, buf) == [buffer |-> buf, table |-> table, writes |-> 0, outcome |-> "none"]

\* the threshold test written with > for >=
ThresholdFlushOffByOne(table, buf, outcome) ==
    IF Len(buf) > buffer_size THEN FlushResult(table, buf, outcome) ELSE NoFlush(table, buf)

\* if len(self.buffer) >= self.buffer_size: self.flush()
ThresholdFlush(table, buf, outcome) ==
    IF Len(buf) >= buffer_size THEN FlushResult(table, buf, outcome) ELSE NoFlush(table, buf)

\* the (job_id, step, metric_type, metric_name) an event or a row reports
Tuple(e) ==
    [job_id |-> e.job_id, step |-> e.step, metric_type |-> e.metric_type,
     metric_name |-> e.metric_name]

RECURSIVE Accept(_, _)
\* the history after the events of one call have been appended
Accept(acc, items) ==
    IF items = <<>> THEN acc
    ELSE LET e == Head(items)
         IN  Accept({a \in acc : a.tuple # Tuple(e)} \cup {[tuple |-> Tuple(e), value |-> e.value]},
                    Tail(items))

\* the state a completed call leaves: buffer, table and the record of the call
Complete(c, res, rec) ==
    /\ buffer' = [buffer EXCEPT ![c] = res.buffer]
    /\ store' = [store EXCEPT ![heap[c].db_path] = res.table]
    /\ last_call' = [rec EXCEPT !.writes = res.writes, !.outcome = res.outcome]

\* what one whole log_step_metrics call does to the collector
LogEffect(c, step, loss_dict, learning_rate, kwargs, outcome) ==
    /\ lock[c] = NoThread
    /\ LET timestamp == now + 1
           new == CallEvents(heap[c].job_id, step, timestamp, loss_dict, learning_rate, kwargs)
           res == ThresholdFlush(store[heap[c].db_path], buffer[c] \o new, outcome)
       IN  /\ now' = timestamp
           /\ accepted' = Accept(accepted, new)
           /\ Complete(c, res,
                       [NoCall EXCEPT !.op = "log_step_metrics",
                                      !.args = [step |-> step, loss_dict |-> loss_dict,
                                                learning_rate |-> learning_rate,
                                                kwargs |-> kwargs],
                                      !.timestamp = timestamp,
                                      !.appended = new])

\* LossCollector.log_step_metrics, run with no other call in progress
log_step_metrics(c, step, loss_dict, learning_rate, kwargs, outcome) ==
    /\ \A t \in Threads : frame[t].pc = "idle"
    /\ LogEffect(c, step, loss_dict, learning_rate, kwargs, outcome)
    /\ UNCHANGED <<cfg, heap, lock, collectors, frame>>

\* LossCollector.flush, called directly with no other call in progress
flush(c, outcome) ==
    /\ \A t \in Threads : frame[t].pc = "idle"
    /\ Complete(c, FlushResult(store[heap[c].db_path], buffer[c], outcome),
                [last_call EXCEPT !.op = "flush"])
    /\ UNCHANGED <<cfg, heap, lock, collectors, now, frame, accepted>>

\* LossCollector.cleanup, with no other call in progress: flush under the lock
cleanup(c, outcome) ==
    /\ lock[c] = NoThread
    /\ \A t \in Threads : frame[t].pc = "idle"
    /\ Complete(c, FlushResult(store[heap[c].db_path], buffer[c], outcome),
                [last_call EXCEPT !.op = "cleanup"])
    /\ UNCHANGED <<cfg, heap, lock, collectors, now, frame, accepted>>

\* ------------------------------------------------------------ the inputs
Steps == 1..MaxStep

KeyAB == <<"a", "/", "b">>
KeyA_B == <<"a", "_", "b">>
KeyGpu == <<"g">>
KeySpeed == <<"s">>

\* the loss dicts of SpecSeq: one loss with either of two values, or two
\* losses whose names differ only in a character the id cleaning replaces,
\* in both orders
LossDicts ==
    {<<<<KeyAB, Float(v)>>>> : v \in 1..2}
        \cup {<<<<KeyAB, Float(1)>>, <<KeyA_B, Float(2)>>>>,
              <<<<KeyA_B, Float(1)>>, <<KeyAB, Float(2)>>>>}

LrVals == {Float(1)}

KwargsSet == {<<>>, <<<<KeyGpu, Float(1)>>, <<KeySpeed, Str(5)>>>>}

\* a direct flush() by a caller that is alone
DirectFlush == \E c \in DOMAIN heap, outcome \in Outcomes : flush(c, outcome)

\* a cleanup() by a caller that is alone
DirectCleanup == \E c \in DOMAIN heap, outcome \in Outcomes : cleanup(c, outcome)

\* a report by a caller that is alone
SeqLog ==
    /\ now < MaxCalls
    /\ \E c \in DOMAIN heap, step \in Steps, loss_dict \in LossDicts,
          learning_rate \in LrVals, kwargs \in KwargsSet, outcome \in Outcomes :
            log_step_metrics(c, step, loss_dict, learning_rate, kwargs, outcome)

NextSeq == SeqLog \/ DirectFlush \/ DirectCleanup

\* one engine used by one caller at a time
SpecSeq == Init /\ [][NextSeq]_vars

\* the loss dicts of SpecBuf: one loss, or two with distinct ids
BufLossDicts ==
    {<<<<KeyAB, Float(1)>>>>, <<<<KeyAB, Float(1)>>, <<KeyGpu, Float(2)>>>>}

\* the reports of SpecBuf append two to five events each
BufLog ==
    /\ now < MaxBufCalls
    /\ \E c \in DOMAIN heap, step \in Steps, loss_dict \in BufLossDicts,
          kwargs \in KwargsSet, outcome \in Outcomes :
            log_step_metrics(c, step, loss_dict, Float(1), kwargs, outcome)

NextBuf == BufLog \/ DirectFlush \/ DirectCleanup

\* one engine, one caller, enough calls to cross the threshold more than once
SpecBuf == Init /\ [][NextBuf]_vars

\* every kind of Python value a caller can pass
AllVals ==
    {Float(1), NaN, Inf, NegInf, PyInt(3), PyBool(1), None, Str(5), Str(MaxInfoLen), Obj}

\* the first call on a fresh collector, with any kind of value as the first
\* loss, as the learning rate and as the extra
ValLog ==
    /\ now = 0
    /\ \E c \in DOMAIN heap, step \in Steps, v1 \in AllVals, v2 \in {Float(2), NaN},
          learning_rate \in AllVals, v3 \in AllVals, outcome \in Outcomes :
            log_step_metrics(c, step, <<<<KeyAB, v1>>, <<KeyGpu, v2>>>>,
                             learning_rate, <<<<KeySpeed, v3>>>>, outcome)

NextVal == ValLog \/ DirectFlush \/ DirectCleanup

\* one call with values of every kind, then flushes
SpecVal == Init /\ [][NextVal]_vars

\* ---------------------------------------------- two engines, one database
\* the job_id 'j_1_loss' and the loss name '2_lr'
JobJ1Loss == <<"j", "_", "1", "_", "l", "o", "s", "s">>
Key2Lr == <<"2", "_", "l", "r">>

\* LossCollector('j', 'db1') and LossCollector('j_1_loss', 'db1'), freshly
\* constructed: two jobs that write to the same table
InitJobs ==
    /\ heap = <<NewCollector(JobJ, "db1"), NewCollector(JobJ1Loss, "db1")>>
    /\ buffer = [c \in Insts |-> <<>>]
    /\ lock = [c \in Insts |-> NoThread]
    /\ store = [p \in DbPaths |-> {}]
    /\ collectors = [j \in JobIds |-> NoCollector]
    /\ now = 0
    /\ frame = [t \in Threads |-> Idle]
    /\ last_call = NoCall
    /\ accepted = {}
    /\ NewConfig

\* log_step_metrics calls per behaviour of SpecJobs
MaxJobCalls == 2

\* a report of one loss and a learning rate to either engine
JobsLog ==
    /\ now < MaxJobCalls
    /\ \E c \in DOMAIN heap, step \in Steps, key \in {KeyAB, Key2Lr},
          outcome \in Outcomes :
            log_step_metrics(c, step, <<<<key, Float(1)>>>>, Float(2), <<>>, outcome)

NextJobs == JobsLog \/ DirectFlush \/ DirectCleanup

\* two engines of different jobs, one caller at a time
SpecJobs == InitJobs /\ [][NextJobs]_vars

\* ------------------------------------------- the engine, thread by thread
\* Each thread runs one call at a time; a step is what a thread does between
\* two points where the interpreter can switch threads.

\* where a thread goes when its flush() returns: back into the with block
\* that called it, or to the caller of a direct flush()
AfterFlush(f) == IF f.call.op = "flush" THEN "return" ELSE "release"

\* flush() with no except block: the exception leaves flush and the call
ExceptBlockMissing(f) == "raised"

\* except Exception as e: print(...): the exception of a failed write ends
\* there and flush returns as after a write that went through
ExceptBlock(f) == AfterFlush(f)

\* log_step_metrics up to "with self.lock": the timestamp is taken
log_enter(t, c, step, loss_dict, learning_rate, kwargs) ==
    /\ frame[t].pc = "idle"
    /\ now' = now + 1
    /\ frame' = [frame EXCEPT ![t] =
            [Idle EXCEPT
                !.pc = "lock",
                !.c = c,
                !.todo = CallEvents(heap[c].job_id, step, now + 1, loss_dict,
                                    learning_rate, kwargs),
                !.call = [NoCall EXCEPT
                            !.op = "log_step_metrics",
                            !.args = [step |-> step, loss_dict |-> loss_dict,
                                      learning_rate |-> learning_rate,
                                      kwargs |-> kwargs],
                            !.timestamp = now + 1]]]
    /\ UNCHANGED <<cfg, heap, buffer, lock, store, collectors, last_call, accepted>>

\* cleanup up to "with self.lock"
cleanup_enter(t, c) ==
    /\ frame[t].pc = "idle"
    /\ frame' = [frame EXCEPT ![t] =
            [Idle EXCEPT !.pc = "lock", !.c = c,
                         !.call = [last_call EXCEPT !.op = "cleanup", !.writes = 0,
                                                    !.outcome = "none"]]]
    /\ now' = now + 1
    /\ UNCHANGED <<cfg, heap, buffer, lock, store, collectors, last_call, accepted>>

\* a direct call of flush(): no lock is taken
flush_enter(t, c) ==
    /\ frame[t].pc = "idle"
    /\ frame' = [frame EXCEPT ![t] =
            [Idle EXCEPT !.pc = "flush", !.c = c,
                         !.call = [last_call EXCEPT !.op = "flush", !.writes = 0,
                                                    !.outcome = "none"]]]
    /\ now' = now + 1
    /\ UNCHANGED <<cfg, heap, buffer, lock, store, collectors, last_call, accepted>>

\* "with self.lock" that does not wait for the lock to be free
lock_acquire_no_wait(t) ==
    /\ frame[t].pc = "lock"
    /\ lock' = [lock EXCEPT ![frame[t].c] = t]
    /\ frame' = [frame EXCEPT ![t].pc =
            IF frame[t].call.op = "cleanup" THEN "flush" ELSE "append"]
    /\ UNCHANGED <<cfg, heap, buffer, store, collectors, now, last_call, accepted>>

\* with self.lock: blocks while another thread holds the lock
lock_acquire(t) ==
    /\ frame[t].pc = "lock"
    /\ lock[frame[t].c] = NoThread
    /\ lock' = [lock EXCEPT ![frame[t].c] = t]
    /\ frame' = [frame EXCEPT ![t].pc =
            IF frame[t].call.op = "cleanup" THEN "flush" ELSE "append"]
    /\ UNCHANGED <<cfg, heap, buffer, store, collectors, now, last_call, accepted>>

\* self.buffer.append({...}) of the next event of the report
log_append(t) ==
    /\ frame[t].pc = "append"
    /\ frame[t].todo # <<>>
    /\ buffer' = [buffer EXCEPT ![frame[t].c] = Append(@, Head(frame[t].todo))]
    /\ accepted' = Accept(accepted, <<Head(frame[t].todo)>>)
    /\ frame' = [frame EXCEPT ![t].todo = Tail(@),
                              ![t].call.appended = Append(@, Head(frame[t].todo))]
    /\ UNCHANGED <<cfg, heap, lock, store, collectors, now, last_call>>

\* if len(self.buffer) >= self.buffer_size: self.flush()
log_threshold(t) ==
    /\ frame[t].pc = "append"
    /\ frame[t].todo = <<>>
    /\ frame' = [frame EXCEPT ![t].pc =
            IF Len(buffer[frame[t].c]) >= buffer_size THEN "flush" ELSE "release"]
    /\ UNCHANGED <<cfg, heap, buffer, lock, store, collectors, now, last_call, accepted>>

\* flush with a "with self.lock" of its own around its body: the lock is a
\* threading.Lock, which the thread that holds it cannot take again
flush_read_locking(t) ==
    /\ frame[t].pc = "flush"
    /\ lock[frame[t].c] = NoThread
    /\ frame' = [frame EXCEPT ![t] =
            IF buffer[frame[t].c] = <<>>
            THEN [@ EXCEPT !.pc = AfterFlush(frame[t])]
            ELSE [@ EXCEPT !.pc = "write", !.batch = buffer[frame[t].c],
                           !.call.writes = 1]]
    /\ UNCHANGED <<cfg, heap, buffer, lock, store, collectors, now, last_call, accepted>>

\* flush: "if not self.buffer: return", else the rows are read off the buffer
flush_read(t) ==
    /\ frame[t].pc = "flush"
    /\ frame' = [frame EXCEPT ![t] =
            IF buffer[frame[t].c] = <<>>
            THEN [@ EXCEPT !.pc = AfterFlush(frame[t])]
            ELSE [@ EXCEPT !.pc = "write", !.batch = buffer[frame[t].c],
                           !.call.writes = 1]]
    /\ UNCHANGED <<cfg, heap, buffer, lock, store, collectors, now, last_call, accepted>>

\* executemany and commit: the batch is in the table, or an exception sends
\* the thread to the except block and out of flush
flush_write(t, outcome) ==
    /\ frame[t].pc = "write"
    /\ store' = [store EXCEPT ![heap[frame[t].c].db_path] =
            IF outcome = "ok" THEN ExecuteMany(@, frame[t].batch) ELSE @]
    /\ frame' = [frame EXCEPT ![t] =
            [@ EXCEPT !.pc = IF outcome = "ok" THEN "clear" ELSE ExceptBlock(frame[t]),
                      !.call.outcome = outcome]]
    /\ UNCHANGED <<cfg, heap, buffer, lock, collectors, now, last_call, accepted>>

\* self.buffer.clear()
flush_clear(t) ==
    /\ frame[t].pc = "clear"
    /\ buffer' = [buffer EXCEPT ![frame[t].c] = <<>>]
    /\ frame' = [frame EXCEPT ![t] = [@ EXCEPT !.pc = AfterFlush(frame[t])]]
    /\ UNCHANGED <<cfg, heap, lock, store, collectors, now, last_call, accepted>>

\* the end of the with block: the lock is released and the call returns
lock_release(t) ==
    /\ frame[t].pc = "release"
    /\ lock' = [lock EXCEPT ![frame[t].c] = NoThread]
    /\ last_call' = frame[t].call
    /\ frame' = [frame EXCEPT ![t] = Idle]
    /\ UNCHANGED <<cfg, heap, buffer, store, collectors, now, accepted>>

\* a direct flush() returns
flush_return(t) ==
    /\ frame[t].pc = "return"
    /\ last_call' = frame[t].call
    /\ frame' = [frame EXCEPT ![t] = Idle]
    /\ UNCHANGED <<cfg, heap, buffer, lock, store, collectors, now, accepted>>

\* the reports of SpecThr: two losses and a learning rate, with or without
\* two extras
ThrLossDicts == {<<<<KeyAB, Float(1)>>, <<KeyGpu, Float(2)>>>>}

ThrLog ==
    /\ now < MaxThrCalls
    /\ \E t \in Threads, c \in DOMAIN heap, step \in Steps, loss_dict \in ThrLossDicts,
          kwargs \in KwargsSet :
            log_enter(t, c, step, loss_dict, Float(1), kwargs)

ThrCleanup ==
    /\ now < MaxThrCalls
    /\ \E t \in Threads, c \in DOMAIN heap : cleanup_enter(t, c)

ThrFlush ==
    /\ now < MaxThrCalls
    /\ \E t \in Threads, c \in DOMAIN heap : flush_enter(t, c)

Acquire == \E t \in Threads : lock_acquire(t)

AppendEvent == \E t \in Threads : log_append(t)

Threshold == \E t \in Threads : log_threshold(t)

FlushRead == \E t \in Threads : flush_read(t)

FlushWrite == \E t \in Threads, outcome \in Outcomes : flush_write(t, outcome)

FlushClear == \E t \in Threads : flush_clear(t)

Release == \E t \in Threads : lock_release(t)

FlushReturn == \E t \in Threads : flush_return(t)

NextThr ==
    \/ ThrLog \/ ThrCleanup \/ ThrFlush
    \/ Acquire \/ AppendEvent \/ Threshold
    \/ FlushRead \/ FlushWrite \/ FlushClear
    \/ Release \/ FlushReturn

\* one engine used by two threads at once
SpecThr == Init /\ [][NextThr]_vars

\* calls (reports, cleanups) per behaviour of SpecErr
MaxErrCalls == 3

\* the reports of SpecErr append five events each: two reports fill the buffer
ErrLog ==
    /\ now < MaxErrCalls
    /\ \E t \in Threads, c \in DOMAIN heap, step \in Steps :
            log_enter(t, c, step, <<<<KeyAB, Float(1)>>, <<KeyGpu, Float(2)>>>>, Float(1),
                      <<<<KeyGpu, Float(1)>>, <<KeySpeed, Str(5)>>>>)

ErrCleanup ==
    /\ now < MaxErrCalls
    /\ \E t \in Threads, c \in DOMAIN heap : cleanup_enter(t, c)

NextErr ==
    \/ ErrLog \/ ErrCleanup
    \/ Acquire \/ AppendEvent \/ Threshold
    \/ FlushRead \/ FlushWrite \/ FlushClear
    \/ Release

\* one engine used by two threads, with calls enough for a report to follow
\* a report whose flush failed
SpecErr == Init /\ [][NextErr]_vars

\* a step of thread t inside a call of log_step_metrics or cleanup
ThreadStep(t) ==
    \/ lock_acquire(t)
    \/ log_append(t)
    \/ log_threshold(t)
    \/ flush_read(t)
    \/ \E outcome \in Outcomes : flush_write(t, outcome)
    \/ flush_clear(t)
    \/ lock_release(t)

\* calls (reports, cleanups) per behaviour of SpecLive
MaxLiveCalls == 3

\* the reports of SpecLive: those of SpecErr, all for step 1
LiveLog ==
    /\ now < MaxLiveCalls
    /\ \E t \in Threads, c \in DOMAIN heap :
            log_enter(t, c, 1, <<<<KeyAB, Float(1)>>, <<KeyGpu, Float(2)>>>>, Float(1),
                      <<<<KeyGpu, Float(1)>>, <<KeySpeed, Str(5)>>>>)

LiveCleanup ==
    /\ now < MaxLiveCalls
    /\ \E t \in Threads, c \in DOMAIN heap : cleanup_enter(t, c)

NextLive ==
    \/ LiveLog \/ LiveCleanup
    \/ Acquire \/ AppendEvent \/ Threshold
    \/ FlushRead \/ FlushWrite \/ FlushClear
    \/ Release

\* one engine used by two threads that are scheduled: a thread that can take
\* a step inside its call from some point on takes one, and every storage
\* write returns (flush_write has an outcome whenever it is reached); nothing
\* is assumed about when a caller starts a call, nor about which of two
\* waiting threads gets the lock
SpecLive == Init /\ [][NextLive]_vars /\ \A t \in Threads : WF_vars(ThreadStep(t))

\* ----------------------------------------- the registry, thread by thread
\* no collector constructed, nothing registered
InitReg ==
    /\ heap = <<>>
    /\ buffer = [c \in Insts |-> <<>>]
    /\ lock = [c \in Insts |-> NoThread]
    /\ store = [p \in DbPaths |-> {}]
    /\ collectors = [j \in JobIds |-> NoCollector]
    /\ now = 0
    /\ frame = [t \in Threads |-> Idle]
    /\ last_call = NoCall
    /\ accepted = {}
    /\ NewConfig

\* a thread calls MetricsManager.get_collector(job_id, db_path)
get_enter(t, job_id, db_path) ==
    /\ frame[t].pc = "idle"
    /\ frame' = [frame EXCEPT ![t] =
            [Idle EXCEPT !.pc = "test", !.job_id = job_id, !.db_path = db_path]]
    /\ UNCHANGED <<cfg, heap, buffer, lock, store, collectors, now, last_call, accepted>>

\* get_collector without its test: every call constructs
get_test_always_new(t) ==
    /\ frame[t].pc = "test"
    /\ frame' = [frame EXCEPT ![t].pc = "construct"]
    /\ UNCHANGED <<cfg, heap, buffer, lock, store, collectors, now, last_call, accepted>>

\* if job_id not in cls._collectors
get_test(t) ==
    /\ frame[t].pc = "test"
    /\ frame' = [frame EXCEPT ![t].pc =
            IF collectors[frame[t].job_id] = NoCollector THEN "construct" ELSE "lookup"]
    /\ UNCHANGED <<cfg, heap, buffer, lock, store, collectors, now, last_call, accepted>>

\* LossCollector(job_id, db_path): a new object; its constructor opens the
\* database, so other threads run meanwhile
get_construct(t) ==
    /\ frame[t].pc = "construct"
    /\ Len(heap) < MaxInst
    /\ heap' = Append(heap, NewCollector(frame[t].job_id, frame[t].db_path))
    /\ frame' = [frame EXCEPT ![t].pc = "store", ![t].new = Len(heap) + 1]
    /\ UNCHANGED <<cfg, buffer, lock, store, collectors, now, last_call, accepted>>

\* cls._collectors[job_id] = <the new collector>
get_store(t) ==
    /\ frame[t].pc = "store"
    /\ collectors' = [collectors EXCEPT ![frame[t].job_id] = frame[t].new]
    /\ frame' = [frame EXCEPT ![t].pc = "lookup"]
    /\ UNCHANGED <<cfg, heap, buffer, lock, store, now, last_call, accepted>>

\* return cls._collectors[job_id]
get_return(t) ==
    /\ frame[t].pc = "lookup"
    /\ collectors[frame[t].job_id] # NoCollector
    /\ frame' = [frame EXCEPT ![t].pc = "got", ![t].ret = collectors[frame[t].job_id]]
    /\ UNCHANGED <<cfg, heap, buffer, lock, store, collectors, now, last_call, accepted>>

\* the caller reports one loss and a learning rate through the collector it
\* was given, and lets go of it
report(t, step, outcome) ==
    /\ frame[t].pc = "got"
    /\ LogEffect(frame[t].ret, step, <<<<KeyAB, Float(1)>>>>, Float(1), <<>>, outcome)
    /\ frame' = [frame EXCEPT ![t] = Idle]
    /\ UNCHANGED <<cfg, heap, lock, collectors>>

\* the caller lets go of the collector it was given
forget(t) ==
    /\ frame[t].pc = "got"
    /\ frame' = [frame EXCEPT ![t] = Idle]
    /\ UNCHANGED <<cfg, heap, buffer, lock, store, collectors, now, last_call, accepted>>

\* the calls of SpecReg leave db_path out: db_path=None
GetEnter == \E t \in Threads, job_id \in JobIds : get_enter(t, job_id, "none")

GetTest == \E t \in Threads : get_test(t)

GetConstruct == \E t \in Threads : get_construct(t)

GetStore == \E t \in Threads : get_store(t)

GetReturn == \E t \in Threads : get_return(t)

Report ==
    /\ now < MaxRegCalls
    /\ \E t \in Threads, step \in Steps, outcome \in Outcomes : report(t, step, outcome)

Forget == \E t \in Threads : forget(t)

NextReg ==
    \/ GetEnter \/ GetTest \/ GetConstruct \/ GetStore \/ GetReturn
    \/ Report \/ Forget

\* the registry used by two threads at once
SpecReg == InitReg /\ [][NextReg]_vars

\* ------------------------------------------ the registry, one call at a time
\* a thread calls MetricsManager.cleanup_collector(job_id)
cc_enter(t, job_id) ==
    /\ frame[t].pc = "idle"
    /\ frame' = [frame EXCEPT ![t] = [Idle EXCEPT !.pc = "cc_test", !.job_id = job_id]]
    /\ UNCHANGED <<cfg, heap, buffer, lock, store, collectors, now, last_call, accepted>>

\* cleanup_collector with the del before the cleanup, and no cleanup after it
cc_test_no_cleanup(t) ==
    /\ frame[t].pc = "cc_test"
    /\ frame' = [frame EXCEPT ![t] =
            IF collectors[frame[t].job_id] = NoCollector
            THEN Idle
            ELSE [@ EXCEPT !.pc = "cc_del", !.c = collectors[frame[t].job_id]]]
    /\ UNCHANGED <<cfg, heap, buffer, lock, store, collectors, now, last_call, accepted>>

\* if job_id in cls._collectors: an unknown job_id ends the call here
cc_test(t) ==
    /\ frame[t].pc = "cc_test"
    /\ frame' = [frame EXCEPT ![t] =
            IF collectors[frame[t].job_id] = NoCollector
            THEN Idle
            ELSE [@ EXCEPT !.pc = "cc_cleanup", !.c = collectors[frame[t].job_id]]]
    /\ UNCHANGED <<cfg, heap, buffer, lock, store, collectors, now, last_call, accepted>>

\* cls._collectors[job_id].cleanup(): the lock is taken, flush runs, the lock
\* is released
cc_cleanup(t, outcome) ==
    /\ frame[t].pc = "cc_cleanup"
    /\ lock[frame[t].c] = NoThread
    /\ LET res == FlushResult(store[heap[frame[t].c].db_path], buffer[frame[t].c], outcome)
       IN  /\ Complete(frame[t].c, res, [last_call EXCEPT !.op = "cleanup"])
           /\ frame' = [frame EXCEPT ![t] =
                   [@ EXCEPT !.pc = "cc_del",
                             !.call = [NoCall EXCEPT !.op = "cleanup",
                                                     !.writes = res.writes,
                                                     !.outcome = res.outcome]]]
    /\ UNCHANGED <<cfg, heap, lock, collectors, now, accepted>>

\* del cls._collectors[job_id]: a KeyError when the entry is gone
cc_del(t) ==
    /\ frame[t].pc = "cc_del"
    /\ IF collectors[frame[t].job_id] = NoCollector
       THEN /\ frame' = [frame EXCEPT ![t].pc = "raised"]
            /\ UNCHANGED collectors
       ELSE /\ collectors' = [collectors EXCEPT ![frame[t].job_id] = NoCollector]
            /\ frame' = [frame EXCEPT ![t] = Idle]
    /\ UNCHANGED <<cfg, heap, buffer, lock, store, now, last_call, accepted>>

\* reports made through the references get_collector returned, in SpecMgr
MaxMgrCalls == 2

\* no thread is in a call
AllIdle == \A t \in Threads : frame[t].pc = "idle"

\* collectors constructed per behaviour of SpecMgr
MaxMgrInst == 2

\* get_collector is called while no other call is in progress, with db_path
\* left out or given; a call that will construct is made only while fewer
\* than MaxMgrInst collectors were constructed
MgrGet ==
    /\ AllIdle
    /\ \E t \in Threads, job_id \in JobIds, db_path \in {"none", "db2"} :
            /\ Len(heap) < MaxMgrInst \/ collectors[job_id] # NoCollector
            /\ get_enter(t, job_id, db_path)

\* cleanup_collector is called while no other call is in progress
MgrRelease == AllIdle /\ \E t \in Threads, job_id \in JobIds : cc_enter(t, job_id)

CcTest == \E t \in Threads : cc_test(t)

CcCleanup == \E t \in Threads, outcome \in Outcomes : cc_cleanup(t, outcome)

CcDel == \E t \in Threads : cc_del(t)

\* the caller reports its next training step
MgrReport ==
    /\ now < MaxMgrCalls
    /\ \E t \in Threads, outcome \in Outcomes : report(t, now + 1, outcome)

NextMgr ==
    \/ MgrGet \/ GetTest \/ GetConstruct \/ GetStore \/ GetReturn
    \/ MgrReport \/ Forget
    \/ MgrRelease \/ CcTest \/ CcCleanup \/ CcDel

\* the registry used by one caller at a time
SpecMgr == InitReg /\ [][NextMgr]_vars

\* ------------------------------------------------- the dynamic config store
\* the latest time a file is written at: every write takes one tick of the
\* clock
MaxTime == 3

\* the modification times a write made now can leave on the file: the
\* file's timestamp has not moved since the file was last written (both
\* writes fall into one step of the filesystem's timestamps), or it is the
\* time of the write
WriteTimes == IF clock < MaxTime THEN {config_file.mtime, clock + 1} ELSE {}

\* the record of a get_* call
GetCall(key, default, cu) ==
    [op |-> "get", key |-> key, arg |-> default,
     result |-> AnswerOf(cu.config, key, default), opened |-> cu.opened,
     wrote |-> FALSE]

\* what a get_* call does to the store: check_and_update, then the answer
GetEffect(key, default) ==
    LET cu == CheckAndUpdate(config_file, last_modified, config_cache)
    IN  /\ last_modified' = cu.last_modified
        /\ config_cache' = cu.config_cache
        /\ cfg_call' = GetCall(key, default, cu)
        /\ UNCHANGED <<met, config_file, clock>>

\* DynamicConfig.get_sample_every
get_sample_every(default) == GetEffect("sample_every", default)

\* DynamicConfig.get_save_every
get_save_every(default) == GetEffect("save_every", default)

\* DynamicConfig.get_log_every
get_log_every(default) == GetEffect("log_every", default)

\* the record of an operation that is no get_* call; wrote is whether it
\* wrote the file
EditCall(op, key, arg, result, wrote) ==
    [op |-> op, key |-> key, arg |-> arg, result |-> result, opened |-> FALSE,
     wrote |-> wrote]

\* update_sample_every with "config = self.config_cache" for
\* "config = self.load_config()"
update_sample_every_from_cache(new_value, time, outcome) ==
    /\ time \in WriteTimes
    /\ IF ~IsInt(new_value) \/ new_value.v <= 0
       THEN /\ cfg_call' = EditCall("update_sample_every", "sample_every", new_value,
                                    Raised, FALSE)
            /\ UNCHANGED <<config_file, clock>>
       ELSE /\ cfg_call' = EditCall("update_sample_every", "sample_every",
                                    new_value, Returned(None), outcome = "ok")
            /\ config_file' =
                   SaveConfig(config_file,
                              [config_cache EXCEPT !.sample_every = new_value,
                                                   !.last_updated = Float(time)],
                              time, outcome)
            /\ clock' = clock + 1
    /\ UNCHANGED <<met, last_modified, config_cache>>

\* DynamicConfig.update_sample_every: a ValueError before anything is read;
\* then load_config, the two assignments (a TypeError when the document is no
\* mapping) and save_config
update_sample_every(new_value, time, outcome) ==
    /\ time \in WriteTimes
    /\ IF ~IsInt(new_value) \/ new_value.v <= 0
       THEN /\ cfg_call' = EditCall("update_sample_every", "sample_every", new_value,
                                    Raised, FALSE)
            /\ UNCHANGED <<config_file, clock>>
       ELSE LET loaded == LoadConfig(config_file, time, outcome)
            IN  IF loaded.config.kind # "map"
                THEN /\ cfg_call' = EditCall("update_sample_every", "sample_every",
                                             new_value, Raised, FALSE)
                     /\ config_file' = loaded.file
                     /\ clock' = clock + 1
                ELSE /\ cfg_call' = EditCall("update_sample_every", "sample_every",
                                             new_value, Returned(None), outcome = "ok")
                     /\ config_file' =
                            SaveConfig(loaded.file,
                                       [loaded.config EXCEPT !.sample_every = new_value,
                                                             !.last_updated = Float(time)],
                                       time, outcome)
                     /\ clock' = clock + 1
    /\ UNCHANGED <<met, last_modified, config_cache>>

\* ------------------------------------------------------- the operator tool
\* the words the operator can give the tool as a value
WordNone == <<"N", "o", "n", "e">>
Word25 == <<"2", "5">>
Word0 == <<"0">>
WordX == <<"x">>
Words == {WordNone, Word25, Word0, WordX}

\* the words the operator gives in SpecCfg
CfgWords == {WordNone, Word25, WordX}

\* str.lower, on the characters the words are made of
LowerChar(ch) == IF ch = "N" THEN "n" ELSE ch
Lower(s) == [i \in 1..Len(s) |-> LowerChar(s[i])]

DigitValue(ch) ==
    CASE ch = "0" -> 0 [] ch = "1" -> 1 [] ch = "2" -> 2 [] ch = "3" -> 3
      [] ch = "4" -> 4 [] ch = "5" -> 5 [] ch = "6" -> 6 [] ch = "7" -> 7
      [] ch = "8" -> 8 [] ch = "9" -> 9

IsDigits(s) ==
    /\ s # <<>>
    /\ \A i \in 1..Len(s) : s[i] \in {"0", "1", "2", "3", "4", "5", "6", "7", "8", "9"}

RECURSIVE DigitsToInt(_)
DigitsToInt(s) ==
    IF s = <<>> THEN 0 ELSE DigitsToInt(SubSeq(s, 1, Len(s) - 1)) * 10 + DigitValue(s[Len(s)])

\* the value set_config makes of the word: [ok, value]; 'none', 'null' and ''
\* give None, the digits of a positive int give that int, anything else is
\* refused
ProcessedValue(value) ==
    IF Lower(value) \in {<<"n", "o", "n", "e">>, <<"n", "u", "l", "l">>, <<>>}
    THEN [ok |-> TRUE, value |-> None]
    ELSE IF IsDigits(value) /\ DigitsToInt(value) > 0
    THEN [ok |-> TRUE, value |-> PyInt(DigitsToInt(value))]
    ELSE [ok |-> FALSE, value |-> None]

\* DynamicConfigCLI.get_config(job_name) or {}
CliGetConfig(file) ==
    IF ~file.exists \/ ~file.readable \/ file.doc.kind = "garbage" THEN EmptyMap
    ELSE SafeLoadOrEmpty(file.doc)

\* DynamicConfigCLI.set_config: an unknown key or a refused value ends the
\* call with nothing written; config.get raises when the document is no
\* mapping; else the key is set and DynamicConfigCLI.save_config stamps
\* last_updated and writes the document
set_config(key, value, time, outcome) ==
    /\ time \in WriteTimes
    /\ LET config == CliGetConfig(config_file)
           processed == ProcessedValue(value)
       IN  IF key \notin ConfigKeys \/ ~processed.ok
           THEN /\ cfg_call' = EditCall("set_config", key, None, Returned(None), FALSE)
                /\ UNCHANGED <<config_file, clock>>
           ELSE IF config.kind # "map"
           THEN /\ cfg_call' = EditCall("set_config", key, processed.value, Raised, FALSE)
                /\ UNCHANGED <<config_file, clock>>
           ELSE /\ cfg_call' = EditCall("set_config", key, processed.value, Returned(None),
                                        outcome = "ok")
                /\ config_file' =
                       SaveConfig(config_file,
                                  [SetField(config, key, processed.value)
                                      EXCEPT !.last_updated = Float(time)],
                                  time, outcome)
                /\ clock' = clock + 1
    /\ UNCHANGED <<met, last_modified, config_cache>>

\* -------------------------------------------------- the operator's own hands
\* the operator writes the file with an editor
edit_file(doc, time) ==
    /\ time \in WriteTimes
    /\ config_file' = File(TRUE, TRUE, doc, time)
    /\ clock' = clock + 1
    /\ cfg_call' = EditCall("edit_file", "none", None, Returned(None), TRUE)
    /\ UNCHANGED <<met, last_modified, config_cache>>

\* the operator deletes the file
delete_file ==
    /\ config_file.exists
    /\ config_file' = [config_file EXCEPT !.exists = FALSE]
    /\ cfg_call' = EditCall("delete_file", "none", None, Returned(None), FALSE)
    /\ UNCHANGED <<met, last_modified, config_cache, clock>>

\* the operator takes the read permission off the file
chmod_file ==
    /\ config_file.exists
    /\ config_file.readable
    /\ config_file' = [config_file EXCEPT !.readable = FALSE]
    /\ cfg_call' = EditCall("chmod_file", "none", None, Returned(None), FALSE)
    /\ UNCHANGED <<met, last_modified, config_cache, clock>>

\* the values a document can have under a key
CfgVals == {Absent, None, PyInt(25), PyInt(0), PyInt(-5), PyBool(1), Float(2), Str(2)}

\* the documents the operator writes: a mapping with two good keys, and the
\* documents that are no mapping
EditDocs ==
    {MapDoc(PyInt(25), PyInt(50), None, Absent)}
        \cup {OtherDoc(kind) : kind \in {"empty", "garbage", "list", "scalar"}}

\* the defaults the training loop passes
Defaults == {PyInt(7), None}

\* the store after DynamicConfig.__init__ in a directory that has no config
\* file
InitCfg ==
    /\ heap = <<NewCollector(JobJ, "db1")>>
    /\ buffer = [c \in Insts |-> <<>>]
    /\ lock = [c \in Insts |-> NoThread]
    /\ store = [p \in DbPaths |-> {}]
    /\ collectors = [j \in JobIds |-> NoCollector]
    /\ now = 0
    /\ frame = [t \in Threads |-> Idle]
    /\ last_call = NoCall
    /\ accepted = {}
    /\ config_file = EnsureConfigFile(NoFile, 1, "ok")
    /\ last_modified = 0
    /\ config_cache = EmptyMap
    /\ clock = 1
    /\ cfg_call = NoCfgCall

GetSampleEvery == \E default \in {PyInt(7)} : get_sample_every(default)

GetSaveEvery == \E default \in Defaults : get_save_every(default)

GetLogEvery == \E default \in {PyInt(7)} : get_log_every(default)

UpdateSampleEvery ==
    \E new_value \in {PyInt(5), PyInt(-5), Float(2), PyBool(1)}, time \in WriteTimes,
       outcome \in Outcomes :
        update_sample_every(new_value, time, outcome)

\* the operator's tool runs where it can write the file
SetConfig ==
    \E key \in ConfigKeys, value \in CfgWords, time \in WriteTimes :
        set_config(key, value, time, "ok")

EditFile == \E doc \in EditDocs, time \in WriteTimes : edit_file(doc, time)

DeleteFile == delete_file

ChmodFile == chmod_file

\* the store after DynamicConfig.__init__ in a directory that has the
\* operator's file: a mapping with a value of any kind under each key
InitAns ==
    /\ heap = <<NewCollector(JobJ, "db1")>>
    /\ buffer = [c \in Insts |-> <<>>]
    /\ lock = [c \in Insts |-> NoThread]
    /\ store = [p \in DbPaths |-> {}]
    /\ collectors = [j \in JobIds |-> NoCollector]
    /\ now = 0
    /\ frame = [t \in Threads |-> Idle]
    /\ last_call = NoCall
    /\ accepted = {}
    /\ \E v1, v2, v3 \in CfgVals :
            config_file = EnsureConfigFile(File(TRUE, TRUE, MapDoc(v1, v2, v3, Absent), 1),
                                           1, "ok")
    /\ last_modified = 0
    /\ config_cache = EmptyMap
    /\ clock = 1
    /\ cfg_call = NoCfgCall

NextAns == GetSampleEvery \/ GetSaveEvery \/ GetLogEvery

\* the training loop asking a store whose file nobody changes
SpecAns == InitAns /\ [][NextAns]_vars

NextCfg ==
    \/ GetSampleEvery \/ GetSaveEvery \/ GetLogEvery
    \/ UpdateSampleEvery \/ SetConfig
    \/ EditFile \/ DeleteFile \/ ChmodFile

\* one training loop asking the store, one operator changing the file
SpecCfg == InitCfg /\ [][NextCfg]_vars

\* ================================================================= claims
Range(seq) == {seq[i] : i \in DOMAIN seq}

\* the rows of the database collector c writes to
Table(c) == store[heap[c].db_path]

\* every event collector c holds, buffered or stored
Recorded(c) == Range(buffer[c]) \cup Table(c)

\* the buffer a step's flush finds: the buffer before the step, and after it
\* the events the step's report appended
Held(c) == IF now' # now THEN buffer[c] \o last_call'.appended ELSE buffer[c]

\* event e is in the table, or was replaced there by a later event of its id
Written(e, table) == \E r \in table : r.id = e.id /\ r.timestamp >= e.timestamp

\* the collectors constructed for job_id
Constructed(job_id) == {c \in DOMAIN heap : heap[c].job_id = job_id}

\* C1 (as claimed): when two threads hold the result of get_collector for the
\* same job_id, exactly one collector was constructed for that job_id, both
\* hold that collector, and so both see the same buffer.
C1_OneCollectorPerJob ==
    \A t, u \in Threads :
        (/\ frame[t].pc = "got"
         /\ frame[u].pc = "got"
         /\ frame[t].job_id = frame[u].job_id) =>
            /\ Cardinality(Constructed(frame[t].job_id)) = 1
            /\ frame[t].ret = frame[u].ret
            /\ buffer[frame[t].ret] = buffer[frame[u].ret]

\* C2 (as claimed): whenever the most recent call ended with a successful
\* flush, the table holds exactly one row per distinct (job_id, step,
\* metric_type, metric_name) accepted so far, with the latest reported value.
C2_OneRowPerTuple ==
    \A c \in DOMAIN heap :
        last_call.outcome = "ok" =>
            /\ \A a \in accepted :
                \E r \in Table(c) : Tuple(r) = a.tuple /\ r.value = a.value
            /\ Cardinality(Table(c)) = Cardinality(accepted)

\* C3 (as claimed): the id is injective: two events, buffered or stored, with
\* the same id report the same (job_id, step, metric_type, metric_name).
C3_IdInjective ==
    \A c \in DOMAIN heap :
        \A e1 \in Range(buffer[c]), e2 \in Recorded(c) :
            e1.id = e2.id => Tuple(e1) = Tuple(e2)

\* C4: a flush whose write fails leaves the buffer holding exactly the events
\* it held and the table as it was; the buffer is emptied only by a flush
\* whose write succeeded; a flush() or cleanup() on an empty buffer attempts
\* no storage write and changes neither buffer nor table.
C4_ClearOnlyOnSuccess ==
    [][\A c \in DOMAIN heap :
        /\ last_call'.outcome = "error" => buffer'[c] = Held(c) /\ store' = store
        /\ (Held(c) # <<>> /\ buffer'[c] = <<>>) => last_call'.outcome = "ok"
        /\ (now' = now /\ buffer[c] = <<>>) =>
              last_call'.writes = 0 /\ buffer' = buffer /\ store' = store]_vars

\* C4 witness: a direct flush() failed and the buffer still holds events
C4_Witness ==
    last_call.op = "flush" /\ last_call.outcome = "error" /\ buffer[1] # <<>>

\* C5 (as claimed): after every flush attempt that reached the storage,
\* successful or failed, the buffer is empty.
C5_BufferEmptyAfterEveryFlush ==
    \A c \in DOMAIN heap : last_call.writes = 1 => buffer[c] = <<>>

\* C5 (amended): after a flush whose write succeeded the buffer is empty and
\* every event it held is in the table (or was replaced there by a later event
\* of the same id); after a flush whose write failed the buffer still holds
\* every event it held, so those events stay for the next flush.
C5_RetainedOnFailure ==
    [][\A c \in DOMAIN heap :
        /\ (last_call'.writes = 1 /\ last_call'.outcome = "ok") =>
              /\ buffer'[c] = <<>>
              /\ \A e \in Range(Held(c)) : Written(e, store'[heap[c].db_path])
        /\ (last_call'.writes = 1 /\ last_call'.outcome = "error") =>
              /\ buffer'[c] # <<>>
              /\ buffer'[c] = Held(c)]_vars

\* C5 witness: a report crossed the threshold, its write failed, and the
\* buffer still holds buffer_size events or more
C5_Witness ==
    /\ last_call.op = "log_step_metrics"
    /\ last_call.outcome = "error"
    /\ Len(buffer[1]) >= buffer_size

\* thread u has appended some of the events of its report and not yet all
PartWay(u) ==
    /\ frame[u].pc = "append"
    /\ frame[u].call.appended # <<>>
    /\ frame[u].todo # <<>>

\* the step is thread t's flush reading the rows off the buffer
ReadsBuffer(t) == frame[t].pc = "flush" /\ frame'[t].pc = "write"

\* the step is thread t's flush clearing the buffer
ClearsBuffer(t) == frame[t].pc = "clear" /\ frame'[t].pc # "clear"

\* C6 (as claimed): no flush, however it was called, reads or clears the
\* buffer while another thread is part-way through appending the events of
\* its report, and two threads are never appending at the same time.
C6_CriticalSections ==
    [][/\ \A t \in Threads :
            (ReadsBuffer(t) \/ ClearsBuffer(t)) =>
                \A u \in Threads \ {t} : ~PartWay(u)
       /\ \A t, u \in Threads :
            (frame[t].pc = "append" /\ frame[u].pc = "append") => t = u]_vars

\* C7: a report that brings the buffer to fewer than buffer_size events
\* attempts no storage write and leaves all of them buffered; a report that
\* brings it to buffer_size events or more attempts exactly one write, and
\* when that write succeeds it returns with an empty buffer and all the
\* events written.
C7_OneFlushPerCrossing ==
    [][now' # now =>
        \A c \in DOMAIN heap :
            LET n == Len(buffer[c]) + Len(last_call'.appended)
            IN  /\ n < buffer_size =>
                      /\ last_call'.writes = 0
                      /\ buffer'[c] = Held(c)
                      /\ store' = store
                /\ n >= buffer_size =>
                      /\ last_call'.writes = 1
                      /\ last_call'.outcome = "ok" =>
                            /\ buffer'[c] = <<>>
                            /\ \A e \in Range(Held(c)) :
                                  Written(e, store'[heap[c].db_path])]_vars

\* C7 witness: a report brought the buffer to exactly buffer_size events, the
\* one flush it triggered succeeded and the buffer is empty
C7_Witness ==
    /\ last_call.op = "log_step_metrics"
    /\ last_call.writes = 1
    /\ last_call.outcome = "ok"
    /\ buffer[1] = <<>>
    /\ Cardinality({r \in Table(1) : r.timestamp <= last_call.timestamp}) >= buffer_size

\* C8 (as claimed): between calls the buffer holds fewer than buffer_size
\* events, whatever the storage writes did.
C8_BufferBelowThreshold ==
    \A c \in DOMAIN heap : Len(buffer[c]) < buffer_size

\* C8 (amended): between calls the buffer holds fewer than buffer_size events
\* unless the most recent call attempted a storage write and that write
\* failed (the buffer then keeps every event).
C8_BelowThresholdUnlessWriteFailed ==
    \A c \in DOMAIN heap :
        Len(buffer[c]) >= buffer_size =>
            last_call.writes = 1 /\ last_call.outcome = "error"

\* C8 witness: a flush succeeded after reports, and later reports left the
\* buffer non-empty and below the threshold
C8_Witness ==
    /\ last_call.op = "log_step_metrics"
    /\ last_call.writes = 0
    /\ Table(1) # {}
    /\ buffer[1] # <<>>
    /\ Len(buffer[1]) < buffer_size

Finite(value) == value.t \in {"float", "int", "bool"}

\* the (metric_type, metric_name) pairs for which collector c holds an event
Names(c) == {<<e.metric_type, e.metric_name>> : e \in Recorded(c)}

\* C9: after a report to a fresh collector, no event or row exists for a
\* loss, learning rate or extra whose value was NaN, and every finite float
\* or int of the same call has its event, buffered or stored, with its value.
C9_NaNNeverRecorded ==
    \A c \in DOMAIN heap :
        last_call.op # "none" =>
            LET a == last_call.args
            IN  /\ \A i \in DOMAIN a.loss_dict :
                      LET key == a.loss_dict[i][1]
                          value == a.loss_dict[i][2]
                      IN  /\ value = NaN => <<"loss", key>> \notin Names(c)
                          /\ value.t \in {"float", "int"} =>
                                \E e \in Recorded(c) :
                                    /\ e.metric_type = "loss"
                                    /\ e.metric_name = key
                                    /\ e.step = a.step
                                    /\ e.value = Float(value.v)
                /\ a.learning_rate = NaN =>
                      \A e \in Recorded(c) : e.metric_type # "learning_rate"
                /\ a.learning_rate.t \in {"float", "int"} =>
                      \E e \in Recorded(c) :
                          /\ e.metric_type = "learning_rate"
                          /\ e.value = Float(a.learning_rate.v)
                /\ \A i \in DOMAIN a.kwargs :
                      LET key == a.kwargs[i][1]
                          value == a.kwargs[i][2]
                      IN  /\ value = NaN =>
                                /\ <<"system", key>> \notin Names(c)
                                /\ <<"info", key>> \notin Names(c)
                          /\ value.t \in {"float", "int"} =>
                                \E e \in Recorded(c) :
                                    /\ e.metric_type = "system"
                                    /\ e.metric_name = key
                                    /\ e.value = Float(value.v)

\* C9 witness: the first loss was NaN, the second loss and the learning rate
\* were finite, and the flush wrote their rows and none for the NaN
C9_Witness ==
    /\ last_call.op = "flush"
    /\ last_call.outcome = "ok"
    /\ last_call.args.loss_dict[1][2] = NaN
    /\ last_call.args.loss_dict[2][2] = Float(2)
    /\ last_call.args.learning_rate = Float(1)
    /\ <<"loss", KeyGpu>> \in {<<r.metric_type, r.metric_name>> : r \in Table(1)}

\* C10 (as claimed): no event is buffered or stored for a loss or learning
\* rate that is not a finite number (NaN, an infinity, None, any other
\* object), nor for an extra that is neither a finite number nor a string of
\* fewer than 100 characters.
C10_NonFiniteSkipped ==
    \A c \in DOMAIN heap :
        last_call.op # "none" =>
            LET a == last_call.args
            IN  /\ \A i \in DOMAIN a.loss_dict :
                      ~Finite(a.loss_dict[i][2]) =>
                          <<"loss", a.loss_dict[i][1]>> \notin Names(c)
                /\ ~Finite(a.learning_rate) =>
                      \A e \in Recorded(c) : e.metric_type # "learning_rate"
                /\ \A i \in DOMAIN a.kwargs :
                      LET value == a.kwargs[i][2]
                      IN  (~Finite(value) /\ ~(value.t = "str" /\ value.v < 100)) =>
                              /\ <<"system", a.kwargs[i][1]>> \notin Names(c)
                              /\ <<"info", a.kwargs[i][1]>> \notin Names(c)

\* thread t is inside the with block of a call on collector c
Inside(t, c) == frame[t].c = c /\ frame[t].pc \notin {"idle", "lock", "raised"}

\* C11: a failed storage write in a flush that log_step_metrics or cleanup
\* triggered never leaves the call by an exception: the thread goes on to the
\* end of its with block and returns; the lock is held only by a thread that
\* is inside a with block, so it is free once the call has returned and the
\* next call can take it.
C11_FailureContained ==
    /\ \A t \in Threads :
          /\ frame[t].pc # "raised"
          /\ frame[t].call.outcome = "error" => frame[t].pc = "release"
    /\ \A c \in DOMAIN heap :
          /\ lock[c] # NoThread => Inside(lock[c], c)
          /\ (\A t \in Threads : ~Inside(t, c)) => lock[c] = NoThread

\* C11 witness: a report filled the buffer and its write failed, and the next
\* report went through: it appended its five events to the ten that were kept
C11_Witness ==
    /\ \A t \in Threads : frame[t].pc = "idle"
    /\ lock[1] = NoThread
    /\ last_call.op = "log_step_metrics"
    /\ Len(last_call.appended) = 5
    /\ Len(buffer[1]) = 15

\* db_path or self._get_default_db_path()
Resolved(db_path) == IF db_path = "none" THEN DefaultDbPath ELSE db_path

\* C12: with one caller at a time, a get_collector for a job_id that has no
\* engine registered constructs one with the db_path it was given and
\* registers it; a get_collector for a job_id that has one constructs
\* nothing and returns the registered engine, whose db_path stays what it was
\* constructed with; and a registered engine is never replaced by another
\* while it is registered.
C12_SameEngineUntilReleased ==
    [][/\ \A t \in Threads :
            /\ (frame[t].pc = "test" /\ collectors[frame[t].job_id] = NoCollector) =>
                  frame'[t].pc = "construct"
            /\ (frame[t].pc = "lookup" /\ frame'[t].pc = "got") =>
                  LET job_id == frame[t].job_id
                      c == frame'[t].ret
                  IN  /\ c = collectors[job_id]
                      /\ heap[c].job_id = job_id
                      /\ IF frame[t].new # 0
                         THEN /\ c = frame[t].new
                              /\ heap[c].db_path = Resolved(frame[t].db_path)
                         ELSE heap' = heap
            /\ (frame[t].pc = "test" /\ collectors[frame[t].job_id] # NoCollector) =>
                  /\ frame'[t].pc = "lookup"
                  /\ frame'[t].new = 0
       /\ \A c \in DOMAIN heap : heap'[c] = heap[c]
       /\ Len(heap') > Len(heap) =>
            \E t \in Threads :
                /\ frame[t].pc = "construct"
                /\ collectors[frame[t].job_id] = NoCollector
       /\ \A job_id \in JobIds :
            (collectors[job_id] # NoCollector /\ collectors'[job_id] # NoCollector) =>
                collectors'[job_id] = collectors[job_id]]_vars

\* C12 witness: a get_collector for a registered job_id was given db2 and
\* returned the engine that was constructed with the default path
C12_Witness ==
    \E t \in Threads :
        /\ frame[t].pc = "got"
        /\ frame[t].new = 0
        /\ frame[t].db_path = "db2"
        /\ frame[t].ret = collectors[frame[t].job_id]
        /\ heap[frame[t].ret].db_path = DefaultDbPath

\* event e of collector c is in c's table after the step, or was replaced
\* there by a later event of its id
WrittenAfter(c) == \A e \in Range(buffer[c]) : Written(e, store'[heap[c].db_path])

\* C13: cleanup_collector of a registered job_id takes the entry out of the
\* registry only after the engine's cleanup ran: the lock was free, flush was
\* applied to the whole buffer (all of it written and the buffer empty, or the
\* write failed), and no other engine's buffer changed; the removal changes
\* no other entry, no buffer and no table. For a job_id that is not
\* registered the call ends at its test, changing nothing, and no call ends
\* in an exception.
C13_CleanupThenRemove ==
    [][/\ \A job_id \in JobIds :
            (collectors[job_id] # NoCollector /\ collectors'[job_id] = NoCollector) =>
                /\ \E t \in Threads :
                      /\ frame[t].pc = "cc_del"
                      /\ frame[t].job_id = job_id
                      /\ frame[t].c = collectors[job_id]
                      /\ frame[t].call.op = "cleanup"
                      /\ buffer[frame[t].c] = <<>> \/ frame[t].call.outcome = "error"
                /\ \A other \in JobIds \ {job_id} : collectors'[other] = collectors[other]
                /\ UNCHANGED <<heap, buffer, lock, store>>
       /\ \A t \in Threads :
            /\ (frame[t].pc = "cc_cleanup" /\ frame'[t].pc = "cc_del") =>
                  /\ lock[frame[t].c] = NoThread
                  /\ frame'[t].call.writes = (IF buffer[frame[t].c] = <<>> THEN 0 ELSE 1)
                  /\ frame'[t].call.outcome = "ok" =>
                        buffer'[frame[t].c] = <<>> /\ WrittenAfter(frame[t].c)
                  /\ \A d \in DOMAIN heap \ {frame[t].c} : buffer'[d] = buffer[d]
                  /\ UNCHANGED <<heap, lock, collectors>>
            /\ (frame[t].pc = "cc_test" /\ collectors[frame[t].job_id] = NoCollector) =>
                  /\ frame'[t].pc = "idle"
                  /\ UNCHANGED <<heap, buffer, lock, store, collectors>>
            /\ frame'[t].pc # "raised"]_vars

\* C13 witness: job j's engine held events, cleanup_collector wrote them and
\* took the engine out of the registry, and job k's engine is still there
C13_Witness ==
    /\ AllIdle
    /\ collectors[JobJ] = NoCollector
    /\ collectors[JobK] # NoCollector
    /\ last_call.op = "cleanup"
    /\ last_call.outcome = "ok"
    /\ \E r \in UNION {store[p] : p \in DbPaths} : r.job_id = JobJ

\* every event any engine holds in its buffer, and every row of any table
AllEvents ==
    UNION {Range(buffer[c]) : c \in DOMAIN heap} \cup UNION {store[p] : p \in DbPaths}

\* C14 (as claimed): two events of different job_ids, buffered or stored,
\* never have the same id.
C14_JobsDisjoint ==
    \A e1, e2 \in AllEvents : e1.job_id # e2.job_id => e1.id # e2.id

\* value is an int greater than 0, and no bool
PositiveInt(value) == value.t = "int" /\ value.v > 0

\* the step is a get_* call
Gets == cfg_call'.op = "get"

\* C15: get_sample_every returns the caller's default while the file is
\* absent; when the file is a readable mapping whose sample_every is a
\* positive integer and its modification time is greater than last_modified,
\* the call returns that value, the cache becomes the file's document and
\* last_modified the file's modification time; and the first check after
\* construction (last_modified still 0) reads the file.
C15_SampleEveryReload ==
    [][(Gets /\ cfg_call'.key = "sample_every") =>
        /\ ~config_file.exists => cfg_call'.result = Returned(cfg_call'.arg)
        /\ (/\ config_file.exists
            /\ config_file.readable
            /\ config_file.doc.kind = "map"
            /\ PositiveInt(config_file.doc.sample_every)
            /\ config_file.mtime > last_modified) =>
                /\ cfg_call'.result = Returned(config_file.doc.sample_every)
                /\ cfg_call'.opened
                /\ config_cache' = config_file.doc
                /\ last_modified' = config_file.mtime
        /\ (config_file.exists /\ last_modified = 0) =>
                cfg_call'.opened /\ last_modified' = config_file.mtime]_vars

\* C15 witness: the operator's tool set sample_every to 25 in the default
\* file, the file's modification time moved, and the call returned 25
C15_Witness ==
    /\ cfg_call.op = "get"
    /\ cfg_call.key = "sample_every"
    /\ cfg_call.opened
    /\ cfg_call.result = Returned(PyInt(25))
    /\ config_file.doc.save_every = None
    /\ last_modified = config_file.mtime
    /\ last_modified > 1

\* the step is the first get_* call after the operator's tool or
\* update_sample_every wrote the file
GetsAfterEdit ==
    /\ cfg_call.op \in {"set_config", "update_sample_every"}
    /\ cfg_call.wrote
    /\ Gets

\* C16 (as claimed): the first get_* call after an edit by the tool or by
\* update_sample_every answers from the edited file, whatever modification
\* time the edit left on it.
C16_NextGetSeesEdit ==
    [][(GetsAfterEdit /\ config_file.readable) =>
        cfg_call'.result = AnswerOf(config_file.doc, cfg_call'.key, cfg_call'.arg)]_vars

\* C16 (amended): the first get_* call after such an edit answers from the
\* edited file, and caches it, when the edit left the file readable with a
\* modification time greater than last_modified; when the edit left a
\* modification time not greater, the call does not see the edit: it answers
\* from the cache, which it leaves as it was.
C16_NextGetSeesEditIfMtimeMoved ==
    [][GetsAfterEdit =>
        IF config_file.mtime > last_modified
        THEN config_file.readable =>
                /\ cfg_call'.result =
                        AnswerOf(config_file.doc, cfg_call'.key, cfg_call'.arg)
                /\ config_cache' = config_file.doc
        ELSE /\ cfg_call'.result = AnswerOf(config_cache, cfg_call'.key, cfg_call'.arg)
             /\ config_cache' = config_cache]_vars

\* C16 witness: update_sample_every(5) wrote the file and the next call,
\* which read it, returned 5
C16_Witness ==
    /\ cfg_call.op = "get"
    /\ cfg_call.key = "sample_every"
    /\ cfg_call.opened
    /\ cfg_call.result = Returned(PyInt(5))
    /\ config_cache.sample_every = PyInt(5)

\* C17: a get_* call that finds the file's modification time not greater
\* than last_modified does not ask for the file's text, leaves config_cache
\* and last_modified as they were and answers from the cache; and a get_*
\* call that follows a get_* call for the same key with the same default,
\* with no edit between them, returns what that call returned.
C17_AnswersFromCache ==
    [][Gets =>
        /\ (config_file.exists /\ config_file.mtime <= last_modified) =>
              /\ ~cfg_call'.opened
              /\ config_cache' = config_cache
              /\ last_modified' = last_modified
              /\ cfg_call'.result = AnswerOf(config_cache, cfg_call'.key, cfg_call'.arg)
        /\ (/\ cfg_call.op = "get"
            /\ cfg_call'.key = cfg_call.key
            /\ cfg_call'.arg = cfg_call.arg) => cfg_call'.result = cfg_call.result]_vars

\* C17 witness: a call for save_every answered 50 from the cache, which an
\* earlier call had loaded from the operator's file
C17_Witness ==
    /\ cfg_call.op = "get"
    /\ cfg_call.key = "save_every"
    /\ ~cfg_call.opened
    /\ config_file.exists
    /\ last_modified = config_file.mtime
    /\ cfg_call.result = Returned(PyInt(50))

\* C18 (as claimed): a get_* call made while the file does not exist creates
\* it with sample_every 100, save_every null and log_every null, and returns
\* the caller's default.
C18_MissingFileRecreated ==
    [][(Gets /\ ~config_file.exists) =>
        /\ config_file'.exists
        /\ config_file'.doc.kind = "map"
        /\ config_file'.doc.sample_every = PyInt(DefaultSampleEvery)
        /\ config_file'.doc.save_every = None
        /\ config_file'.doc.log_every = None
        /\ cfg_call'.result = Returned(cfg_call'.arg)]_vars

\* C19 (as claimed): a get_* call on a file that is a mapping does not raise,
\* returns the file's value for its key when that value is a positive
\* integer, and returns the caller's default when the key is absent, null,
\* of a type that is no integer, or an integer not greater than 0.
C19_DefaultUnlessPositiveInt ==
    cfg_call.op = "get" =>
        LET value == Field(config_file.doc, cfg_call.key)
        IN  /\ ~cfg_call.result.raised
            /\ cfg_call.result.value =
                    (IF PositiveInt(value) THEN value ELSE cfg_call.arg)

\* C20 (as claimed): no get_* call raises, whatever the file is: missing,
\* unreadable, empty, unparseable, a list or a scalar.
C20_GetNeverRaises == cfg_call.op = "get" => ~cfg_call.result.raised

\* the file cannot be read as a document: its text cannot be opened, or does
\* not parse
ReadFails(file) == file.exists /\ (~file.readable \/ file.doc.kind = "garbage")

\* C21 (as claimed): a get_* call that attempts a reload (the file's
\* modification time is greater than last_modified) and cannot read or parse
\* the file leaves config_cache and last_modified as they were and answers
\* from the cache it had.
C21_FailedReloadKeepsCache ==
    [][(Gets /\ ReadFails(config_file) /\ config_file.mtime > last_modified) =>
        /\ config_cache' = config_cache
        /\ last_modified' = last_modified
        /\ cfg_call'.result = AnswerOf(config_cache, cfg_call'.key, cfg_call'.arg)]_vars

\* the step is an update_sample_every call
Updates == cfg_call'.op = "update_sample_every"

\* C22 (as claimed): update_sample_every(v) with v no integer, or an integer
\* not greater than 0, raises and leaves the file (its content and its
\* modification time), config_cache and last_modified as they were.
C22_InvalidRejected ==
    [][(Updates /\ ~PositiveInt(cfg_call'.arg)) =>
        /\ cfg_call'.result.raised
        /\ ~cfg_call'.wrote
        /\ config_file' = config_file
        /\ config_cache' = config_cache
        /\ last_modified' = last_modified]_vars

\* the file holds a document update_sample_every can read: a mapping, or
\* nothing (which it reads as the empty mapping)
HoldsMapping(file) ==
    file.exists /\ file.readable /\ file.doc.kind \in {"map", "empty"}

\* C23: update_sample_every(v) with v a positive integer, on a file that
\* holds a mapping, does not raise; the document it writes is the document
\* the file held, whatever config_cache holds, with sample_every set to v and
\* last_updated set to the time of the write, so save_every and log_every
\* keep the values the file had; and when the write fails the file is as it
\* was.
C23_UpdateKeepsOtherKeys ==
    [][(Updates /\ PositiveInt(cfg_call'.arg) /\ HoldsMapping(config_file)) =>
        /\ ~cfg_call'.result.raised
        /\ IF cfg_call'.wrote
           THEN /\ config_file'.doc =
                        [SafeLoadOrEmpty(config_file.doc)
                            EXCEPT !.sample_every = cfg_call'.arg,
                                   !.last_updated = Float(config_file'.mtime)]
                /\ config_file'.doc.save_every = Field(SafeLoadOrEmpty(config_file.doc), "save_every")
                /\ config_file'.doc.log_every = Field(SafeLoadOrEmpty(config_file.doc), "log_every")
           ELSE config_file' = config_file]_vars

\* C23 witness: the cache held the default document, the operator's tool set
\* save_every to 25 on disk, and update_sample_every(5) wrote a document that
\* has the 25 while the cache, never reloaded, still has none
C23_Witness ==
    /\ cfg_call.op = "update_sample_every"
    /\ cfg_call.wrote
    /\ config_file.doc.sample_every = PyInt(5)
    /\ config_file.doc.save_every = PyInt(25)
    /\ last_modified > 0
    /\ config_cache.sample_every = PyInt(DefaultSampleEvery)
    /\ config_cache.save_every = None

\* the i-th buffered event of collector c is in c's table after the step: the
\* event itself, or the event of its id that was appended last
StoredAfter(c, i) ==
    \E j \in i..Len(buffer[c]) :
        /\ buffer[c][j].id = buffer[c][i].id
        /\ buffer[c][j] \in store'[heap[c].db_path]

\* the buffer of collector c only grew in the step
OnlyGrew(c) ==
    /\ Len(buffer'[c]) >= Len(buffer[c])
    /\ SubSeq(buffer'[c], 1, Len(buffer[c])) = buffer[c]

\* the step is thread t's flush committing its rows
Commits(t) == frame[t].pc = "write" /\ frame'[t].pc = "clear"

\* C24: with log_step_metrics and cleanup calls of two threads interleaved on
\* one engine, and every storage write free to fail, no step loses an event:
\* an event leaves the buffer only in a step after which the table holds it
\* (or the event of its id appended after it), a row leaves the table only
\* for a row of its id, and after the commit of a flush the table holds every
\* event the buffer holds, so every event accepted before the flush started.
C24_NoEventLost ==
    [][\A c \in DOMAIN heap :
        /\ OnlyGrew(c) \/ \A i \in DOMAIN buffer[c] : StoredAfter(c, i)
        /\ \A r \in Table(c) : \E r2 \in store'[heap[c].db_path] : r2.id = r.id
        /\ \A t \in Threads :
              (Commits(t) /\ frame[t].c = c) =>
                  \A i \in DOMAIN buffer[c] : StoredAfter(c, i)]_vars

\* C24 witness: one thread's flush committed ten events while the other
\* thread, its report's timestamp taken, waits for the lock
C24_Witness ==
    \E t, u \in Threads :
        /\ frame[t].pc = "clear"
        /\ frame[u].pc = "lock"
        /\ frame[u].call.op = "log_step_metrics"
        /\ frame[u].c = frame[t].c
        /\ Len(buffer[frame[t].c]) = 10
        /\ Table(frame[t].c) # {}

\* thread t holds the lock of the collector its call is on
HoldsLock(t) == \E c \in DOMAIN heap : frame[t].c = c /\ lock[c] = t

\* thread t is in no call and holds no lock
HasReturned(t) == frame[t].pc = "idle" /\ \A c \in DOMAIN heap : lock[c] # t

\* C25: with log_step_metrics and cleanup calls of two threads interleaved on
\* one engine, threads that are scheduled and storage writes that return, a
\* thread that waits for the lock comes to hold it, and a thread that is in a
\* call comes to have returned with the lock released.
C25_EveryCallReturns ==
    \A t \in Threads :
        /\ (frame[t].pc = "lock") ~> HoldsLock(t)
        /\ (frame[t].pc # "idle") ~> HasReturned(t)

\* C25 witness: a report filled the buffer and its thread is inside the
\* flush it called while holding the lock, and the other thread's cleanup
\* waits for the lock
C25_Witness ==
    \E t, u \in Threads :
        /\ frame[t].call.op = "log_step_metrics"
        /\ frame[t].pc = "write"
        /\ HoldsLock(t)
        /\ frame[u].call.op = "cleanup"
        /\ frame[u].pc = "lock"
        /\ frame[u].c = frame[t].c

====
